---- MODULE Spec2Model ----
(***************************************************************************)
(* mdfusion: discovery of Markdown files in natural order, merge with      *)
(* image-link rewriting, and the run() pipeline around the renderer.       *)
(* Modelled from src/mdfusion/mdfusion.py.                                 *)
(*                                                                         *)
(* Text and paths are Python str values, modelled as sequences of          *)
(* one-character strings.                                                  *)
(***************************************************************************)
EXTENDS Integers, Sequences, FiniteSets, TLC

VARIABLES
    pc,        \* control point of the call being made
    root_dir,  \* params.root_dir
    files,     \* the source tree: path -> [text, mode] of each regular file
    md_files,  \* the list find_markdown_files returned
    metadata,  \* the metadata block handed to merge_markdown ("" when none)
    merged,    \* merged.md: whether it exists and the out.write() calls made
    reads,     \* the documents read_text() was called on, in order
    exc,       \* the exception raised by the call, if any
    params,    \* the RunParams given to run(), but for root_dir
    tools,     \* the executables shutil.which() finds
    temp_dir,  \* the mkdtemp directory: "absent", "present" or "removed"
    calls,     \* the calls made that act outside the process, in order
    proc,      \* the renderer process that was run, if any
    outputs,   \* the output files written
    stdout,    \* what was printed to stdout
    stderr,    \* what was printed to stderr
    outcome,   \* "running", "returned" (run() returned), "exit1" (sys.exit(1))
               \* or "exit2" (parser.error)
    cli,       \* the RunParams options on the command line: field -> [set, val]
    extra,     \* the command-line arguments the parser does not know
    config     \* the [mdfusion] table of the TOML file: key -> [set, val]

corevars == <<pc, root_dir, files, md_files, metadata, merged, reads, exc>>
runvars == <<params, tools, temp_dir, calls, proc, outputs, stdout, stderr, outcome>>
mainvars == <<cli, extra, config>>
vars == <<corevars, runvars, mainvars>>

\* Python None where a str is expected: no str is equal to it
NONE == <<"None">>

\* bool(s) of a value that is a str or None
Truthy(s) == s # NONE /\ s # <<>>

(***************************************************************************)
(* Characters                                                              *)
(***************************************************************************)
DigitChars == {"0", "1", "2", "3", "4", "5", "6", "7", "8", "9"}

\* ord(c) for the characters that occur in the model
Code(c) ==
    CASE c = "\n" -> 10 [] c = "\r" -> 13 [] c = " " -> 32 [] c = "!" -> 33
      [] c = "(" -> 40 [] c = ")" -> 41 [] c = "-" -> 45 [] c = "." -> 46
      [] c = "/" -> 47 [] c = "0" -> 48 [] c = "1" -> 49 [] c = "2" -> 50
      [] c = "3" -> 51 [] c = "4" -> 52 [] c = "5" -> 53 [] c = "6" -> 54
      [] c = "7" -> 55 [] c = "8" -> 56 [] c = "9" -> 57 [] c = ":" -> 58
      [] c = "A" -> 65 [] c = "B" -> 66 [] c = "H" -> 72 [] c = "P" -> 80
      [] c = "T" -> 84 [] c = "[" -> 91 [] c = "]" -> 93 [] c = "a" -> 97
      [] c = "b" -> 98 [] c = "d" -> 100 [] c = "f" -> 102 [] c = "h" -> 104
      [] c = "i" -> 105 [] c = "m" -> 109 [] c = "p" -> 112 [] c = "r" -> 114
      [] c = "s" -> 115 [] c = "t" -> 116 [] c = "w" -> 119 [] c = "x" -> 120

\* str.lower() on one character
LowerChar(c) ==
    CASE c = "A" -> "a" [] c = "B" -> "b" [] c = "H" -> "h" [] c = "P" -> "p"
      [] c = "T" -> "t" [] OTHER -> c

lower(s) == [i \in 1..Len(s) |-> LowerChar(s[i])]

Range(f) == {f[i] : i \in DOMAIN f}

Min(a, b) == IF a < b THEN a ELSE b

StartsWith(s, pre) == Len(pre) <= Len(s) /\ SubSeq(s, 1, Len(pre)) = pre

EndsWith(s, suf) ==
    Len(suf) <= Len(s) /\ SubSeq(s, Len(s) - Len(suf) + 1, Len(s)) = suf

\* Python's s < t on str: lexicographic by code point, a proper prefix first
StrLess(s, t) ==
    \/ Len(s) < Len(t) /\ SubSeq(t, 1, Len(s)) = s
    \/ \E i \in 1..Min(Len(s), Len(t)) :
          /\ SubSeq(s, 1, i - 1) = SubSeq(t, 1, i - 1)
          /\ Code(s[i]) < Code(t[i])

(***************************************************************************)
(* natural_key                                                             *)
(***************************************************************************)
RECURSIVE DigitRun(_)
\* length of the longest prefix of s made of digits (what \d+ consumes)
DigitRun(s) ==
    IF s # <<>> /\ Head(s) \in DigitChars THEN 1 + DigitRun(Tail(s)) ELSE 0

RECURSIVE NonDigitRun(_)
NonDigitRun(s) ==
    IF s # <<>> /\ Head(s) \notin DigitChars THEN 1 + NonDigitRun(Tail(s)) ELSE 0

RECURSIVE re_split(_)
\* re.split(r"(\d+)", s): text, digits, text, ..., text (texts may be empty)
re_split(s) ==
    LET n    == NonDigitRun(s)
        rest == SubSeq(s, n + 1, Len(s))
        d    == DigitRun(rest)
    IN  IF rest = <<>>
        THEN << SubSeq(s, 1, n) >>
        ELSE << SubSeq(s, 1, n), SubSeq(rest, 1, d) >>
                 \o re_split(SubSeq(rest, d + 1, Len(rest)))

\* tok.isdigit()
isdigit(tok) == tok # <<>> /\ \A i \in 1..Len(tok) : tok[i] \in DigitChars

RECURSIVE int(_)
\* int(tok) of a run of decimal digits
int(tok) ==
    IF tok = <<>> THEN 0
    ELSE 10 * int(SubSeq(tok, 1, Len(tok) - 1)) + (Code(tok[Len(tok)]) - Code("0"))

\* one element of the key: an int or a lower-cased str
KeyInt(tok) == [num |-> TRUE, n |-> int(tok), s |-> <<>>]
KeyStr(tok) == [num |-> FALSE, n |-> 0, s |-> lower(tok)]

\* a key that keeps digit runs as text
KeyElemLexical(tok) == KeyStr(tok)

KeyElem(tok) == IF isdigit(tok) THEN KeyInt(tok) ELSE KeyStr(tok)

natural_key(s) == LET toks == re_split(s) IN [i \in 1..Len(toks) |-> KeyElem(toks[i])]

\* a < b on two key elements (int with int, str with str)
ElemLess(a, b) ==
    IF a.num /\ b.num THEN a.n < b.n
    ELSE IF ~a.num /\ ~b.num THEN StrLess(a.s, b.s)
    ELSE FALSE

\* Python's k1 < k2 on lists
KeyLess(k1, k2) ==
    \/ Len(k1) < Len(k2) /\ SubSeq(k2, 1, Len(k1)) = k1
    \/ \E i \in 1..Min(Len(k1), Len(k2)) :
          /\ SubSeq(k1, 1, i - 1) = SubSeq(k2, 1, i - 1)
          /\ ElemLess(k1[i], k2[i])

(***************************************************************************)
(* Paths (POSIX), as str                                                   *)
(***************************************************************************)
SEP == <<"/">>

\* root_dir / rel
JoinRoot(root, rel) == root \o SEP \o rel

\* str(p.relative_to(root_dir)) for p under root_dir
relative_to(p, root) == SubSeq(p, Len(root) + 2, Len(p))

MD_SUFFIX == <<".", "m", "d">>

\* the glob pattern "*.md" on a path's final component
Matches(p) == EndsWith(p, MD_SUFFIX)

(***************************************************************************)
(* find_markdown_files                                                     *)
(***************************************************************************)
SortKey(p, root) == natural_key(relative_to(p, root))

\* position at which list.sort (stable) places x in an already sorted list
InsertPos(sorted, x, root) ==
    LET later == {i \in 1..Len(sorted) : KeyLess(SortKey(x, root), SortKey(sorted[i], root))}
    IN  IF later = {} THEN Len(sorted) + 1
        ELSE CHOOSE i \in later : \A j \in later : i <= j

Insert(sorted, x, root) ==
    LET k == InsertPos(sorted, x, root)
    IN  SubSeq(sorted, 1, k - 1) \o <<x>> \o SubSeq(sorted, k, Len(sorted))

RECURSIVE sort(_, _)
\* md_paths.sort(key=...): stable, ties keep their order of enumeration
sort(paths, root) ==
    IF paths = <<>> THEN <<>>
    ELSE Insert(sort(SubSeq(paths, 1, Len(paths) - 1), root), paths[Len(paths)], root)

RECURSIVE SelectMd(_)
SelectMd(enum) ==
    IF enum = <<>> THEN <<>>
    ELSE (IF Matches(Head(enum)) THEN <<Head(enum)>> ELSE <<>>) \o SelectMd(Tail(enum))

\* enum: the entries under root_dir in the order the file system yields them
find_markdown_files(root, enum) == sort(SelectMd(enum), root)

RECURSIVE Perms(_)
\* every order in which a directory walk may yield the entries S
Perms(S) ==
    IF S = {} THEN {<<>>}
    ELSE UNION {{<<x>> \o p : p \in Perms(S \ {x})} : x \in S}

RECURSIVE SubsetsUpTo(_, _)
SubsetsUpTo(S, k) ==
    IF k = 0 THEN {{}}
    ELSE LET prev == SubsetsUpTo(S, k - 1)
         IN  prev \cup {T \cup {x} : T \in prev, x \in S}

(***************************************************************************)
(* pathlib on POSIX: a path is its parts, absolute or not                  *)
(***************************************************************************)
CWD == <<"/", "w">>

RECURSIVE SplitComps(_)
\* the components of a path string: empty ones and "." are dropped
SplitComps(s) ==
    IF s = <<>> THEN <<>>
    ELSE LET slashes == {i \in 1..Len(s) : s[i] = "/"}
             n    == IF slashes = {} THEN Len(s)
                     ELSE (CHOOSE i \in slashes : \A j \in slashes : i <= j) - 1
             comp == SubSeq(s, 1, n)
             rest == SubSeq(s, n + 2, Len(s))
         IN  (IF comp = <<>> \/ comp = <<".">> THEN <<>> ELSE <<comp>>)
                 \o SplitComps(rest)

\* Path(s)
Path(s) == [abs |-> s # <<>> /\ s[1] = "/", parts |-> SplitComps(s)]

\* p.parent
parent(p) ==
    [abs |-> p.abs,
     parts |-> IF p.parts = <<>> THEN <<>> ELSE SubSeq(p.parts, 1, Len(p.parts) - 1)]

\* p / s: an absolute right operand replaces the left one
truediv(p, s) ==
    LET q == Path(s)
    IN  IF q.abs THEN q ELSE [abs |-> p.abs, parts |-> p.parts \o q.parts]

RECURSIVE Normalize(_, _)
\* ".." removes the component before it (none is left above the root)
Normalize(parts, acc) ==
    IF parts = <<>> THEN acc
    ELSE IF Head(parts) = <<".", ".">>
         THEN Normalize(Tail(parts),
                        IF acc = <<>> THEN <<>> ELSE SubSeq(acc, 1, Len(acc) - 1))
         ELSE Normalize(Tail(parts), Append(acc, Head(parts)))

\* p.resolve() in a tree without symbolic links
resolve(p) ==
    [abs |-> TRUE,
     parts |-> Normalize(IF p.abs THEN p.parts ELSE Path(CWD).parts \o p.parts, <<>>)]

RECURSIVE JoinParts(_)
JoinParts(parts) ==
    IF parts = <<>> THEN <<>>
    ELSE IF Len(parts) = 1 THEN parts[1]
    ELSE parts[1] \o SEP \o JoinParts(Tail(parts))

\* str(p)
str(p) ==
    IF p.abs THEN SEP \o JoinParts(p.parts)
    ELSE IF p.parts = <<>> THEN <<".">> ELSE JoinParts(p.parts)

(***************************************************************************)
(* IMAGE_RE and its substitution                                          *)
(***************************************************************************)
\* the pattern: "![", a run without "]", "](", not followed by http:// or
\* https://, a non-empty run without ")", ")"
HTTP == <<"h", "t", "t", "p", ":", "/", "/">>
HTTPS == <<"h", "t", "t", "p", "s", ":", "/", "/">>

\* the first index >= from at which text holds c, or 0
FirstIndex(text, from, c) ==
    LET at == {k \in from..Len(text) : text[k] = c}
    IN  IF at = {} THEN 0 ELSE CHOOSE k \in at : \A l \in at : k <= l

\* the text from index j on begins with http:// or https://
IsUrl(text, j) ==
    \/ StartsWith(SubSeq(text, j, Len(text)), HTTP)
    \/ StartsWith(SubSeq(text, j, Len(text)), HTTPS)

\* IMAGE_RE.match(text, i): [^\]]* ends at the first "]" and [^)]+ at the
\* first ")", so the match at i is unique when there is one
MatchAt(text, i) ==
    LET j == FirstIndex(text, i + 2, "]")
        k == IF j = 0 THEN 0 ELSE FirstIndex(text, j + 2, ")")
    IN  [ok   |-> /\ i + 1 <= Len(text)
                  /\ text[i] = "!"
                  /\ text[i + 1] = "["
                  /\ j # 0
                  /\ j + 1 <= Len(text)
                  /\ text[j + 1] = "("
                  /\ ~IsUrl(text, j + 2)
                  /\ k > j + 2,
         alt  |-> IF j = 0 THEN <<>> ELSE SubSeq(text, i + 2, j - 1),
         link |-> IF k = 0 THEN <<>> ELSE SubSeq(text, j + 2, k - 1),
         end  |-> k]

\* a fix_link that resolves against the working directory
fix_link_cwd(alt, link, md) ==
    <<"!", "[">> \o alt \o <<"]", "(">>
        \o str(resolve(truediv(Path(<<".">>), link))) \o <<")">>

\* fix_link(m) inside merge_markdown, for the document md
fix_link(alt, link, md) ==
    <<"!", "[">> \o alt \o <<"]", "(">>
        \o str(resolve(truediv(parent(Path(md)), link))) \o <<")">>

RECURSIVE IMAGE_RE_sub(_, _, _)
\* IMAGE_RE.sub(fix_link, text) from index i on: leftmost matches, in turn
IMAGE_RE_sub(text, i, md) ==
    IF i > Len(text) THEN <<>>
    ELSE LET m == MatchAt(text, i)
         IN  IF m.ok
             THEN fix_link(m.alt, m.link, md) \o IMAGE_RE_sub(text, m.end + 1, md)
             ELSE <<text[i]>> \o IMAGE_RE_sub(text, i + 1, md)

(***************************************************************************)
(* merge_markdown                                                          *)
(***************************************************************************)
RECURSIVE universal_newlines(_)
\* text mode with newline=None: \r\n and \r are read as \n
universal_newlines(s) ==
    IF s = <<>> THEN <<>>
    ELSE IF Head(s) = "\r"
         THEN <<"\n">> \o universal_newlines(
                  IF Len(s) >= 2 /\ s[2] = "\n" THEN SubSeq(s, 3, Len(s)) ELSE Tail(s))
         ELSE <<Head(s)>> \o universal_newlines(Tail(s))

NoExc == [type |-> "none", path |-> <<>>]
NoFile == [exists |-> FALSE, writes |-> <<>>]

\* the exception md.read_text(encoding="utf-8") raises on file f, if any
ReadError(f, md) ==
    IF f.mode = "perm" THEN [type |-> "PermissionError", path |-> md]
    ELSE IF f.mode = "enc" THEN [type |-> "UnicodeDecodeError", path |-> md]
    ELSE NoExc

\* md.read_text(encoding="utf-8") on a readable file
read_text(f) == universal_newlines(f.text)

NEWLINES == <<"\n", "\n">>

RECURSIVE MergeLoop(_, _, _, _)
\* the for loop of merge_markdown from document i on; an exception of
\* read_text leaves the loop with what was written so far
MergeLoop(docs, i, fs, writes) ==
    IF i > Len(docs) THEN [writes |-> writes, exc |-> NoExc, reads |-> docs]
    ELSE LET md == docs[i]
             e  == ReadError(fs[md], md)
         IN  IF e # NoExc
             THEN [writes |-> writes, exc |-> e, reads |-> SubSeq(docs, 1, i)]
             ELSE MergeLoop(docs, i + 1, fs,
                      writes \o << IMAGE_RE_sub(read_text(fs[md]), 1, md), NEWLINES >>)

merge_markdown(docs, meta, fs) ==
    MergeLoop(docs, 1, fs, IF meta # <<>> THEN <<meta>> ELSE <<>>)

RECURSIVE Concat(_)
\* the content of a file after the given writes
Concat(ws) == IF ws = <<>> THEN <<>> ELSE Head(ws) \o Concat(Tail(ws))

TODAY == <<"2", "0", "0", "0", "-", "0", "1", "-", "0", "1">>

create_metadata(title, author) ==
    <<"-", "-", "-", "\n", "t", "i", "t", "l", "e", ":", " ", "\"">> \o title
        \o <<"\"", "\n", "a", "u", "t", "h", "o", "r", ":", " ", "\"">> \o author
        \o <<"\"", "\n", "d", "a", "t", "e", ":", " ", "\"">> \o TODAY
        \o <<"\"", "\n", "-", "-", "-", "\n", "\n">>

(***************************************************************************)
(* run(): helpers                                                          *)
(***************************************************************************)
\* a print() call: a format and the values put into it
Msg(fmt, args) == [fmt |-> fmt, args |-> args]

NoProc == [ran |-> FALSE, cmd |-> <<>>, rc |-> 0, err |-> <<>>]

NoParams ==
    [output |-> NONE, no_toc |-> FALSE, title_page |-> FALSE, title |-> NONE,
     author |-> NONE, pandoc_args |-> <<>>, config_path |-> NONE,
     presentation |-> FALSE, debug |-> FALSE]

\* the state of a run() that has not been entered
RunIdle ==
    /\ params = NoParams
    /\ tools = {}
    /\ temp_dir = "absent"
    /\ calls = <<>>
    /\ proc = NoProc
    /\ outputs = {}
    /\ stdout = <<>>
    /\ stderr = <<>>
    /\ outcome = "running"

REQUIRED == {"pandoc", "xetex"}

\* requirements_met()
requirements_met(found) == REQUIRED \subseteq found

\* what requirements_met() prints
requirements_errors(found) ==
    (IF "pandoc" \in found THEN <<>> ELSE <<Msg("ERR: pandoc not found", <<>>)>>)
        \o (IF "xetex" \in found THEN <<>> ELSE <<Msg("ERR: xetex not found", <<>>)>>)

\* p.name
name(p) == LET parts == Path(p).parts IN IF parts = <<>> THEN <<>> ELSE parts[Len(parts)]

USER == <<"u">>

\* a run() that writes the metadata block only for title_page
run_metadata_flag_only(p, root) ==
    IF p.title_page
    THEN create_metadata(IF Truthy(p.title) THEN p.title ELSE name(root),
                         IF Truthy(p.author) THEN p.author ELSE USER)
    ELSE <<>>

\* title, author and metadata in run()
run_metadata(p, root) ==
    IF p.title_page \/ Truthy(p.title) \/ Truthy(p.author)
    THEN create_metadata(IF Truthy(p.title) THEN p.title ELSE name(root),
                         IF Truthy(p.author) THEN p.author ELSE USER)
    ELSE <<>>

PDF == <<".", "p", "d", "f">>
HTML == <<".", "h", "t", "m", "l">>

\* out_pdf in run()
out_pdf(p, root) ==
    IF Truthy(p.output) THEN p.output
    ELSE name(root) \o (IF p.presentation THEN HTML ELSE PDF)

\* cmd in run(), for the merged file at the given path
pandoc_cmd(p, root, input) ==
    [input   |-> input,
     out     |-> out_pdf(p, root),
     header  |-> EndsWith(out_pdf(p, root), PDF),
     toc     |-> ~p.no_toc,
     verbose |-> p.debug /\ EndsWith(out_pdf(p, root), PDF),
     extra   |-> p.pandoc_args]

\* str(e) of the exception caught in run()
exc_message(e) ==
    IF e.type = "PermissionError"
    THEN Msg("Error during processing: [Errno 13] Permission denied: '{}'", <<e.path>>)
    ELSE IF e.type = "UnicodeDecodeError"
    THEN Msg("Error during processing: 'utf-8' codec can't decode byte", <<>>)
    ELSE Msg("Error during processing: {}", <<>>)

SystemExit == [type |-> "SystemExit", path |-> <<>>]

(***************************************************************************)
(* handle_pandoc_error                                                     *)
(***************************************************************************)
\* the grave accent, which a TLA+ string cannot hold
BACKTICK == "grave"

UNRECOGNIZED == <<"u", "n", "r", "e", "c", "o", "g", "n", "i", "z", "e", "d", " ",
                  "o", "p", "t", "i", "o", "n", " ", BACKTICK>>
UNKNOWN == <<"U", "n", "k", "n", "o", "w", "n", " ", "o", "p", "t", "i", "o", "n", " ">>

WHITESPACE == {" ", "\n", "\r", "\t"}

RECURSIVE lstrip(_)
lstrip(s) == IF s # <<>> /\ Head(s) \in WHITESPACE THEN lstrip(Tail(s)) ELSE s

RECURSIVE rstrip(_)
rstrip(s) ==
    IF s # <<>> /\ s[Len(s)] \in WHITESPACE THEN rstrip(SubSeq(s, 1, Len(s) - 1)) ELSE s

\* err.strip()
strip(s) == rstrip(lstrip(s))

\* re.search of  unrecognized option `([^']+)'  : the group, or NONE
search_unrecognized(err) ==
    LET open(i) == i + Len(UNRECOGNIZED)
        close(i) == FirstIndex(err, open(i), "'")
        at == {i \in 1..Len(err) :
                 /\ StartsWith(SubSeq(err, i, Len(err)), UNRECOGNIZED)
                 /\ close(i) > open(i)}
    IN  IF at = {} THEN NONE
        ELSE LET i == CHOOSE k \in at : \A l \in at : k <= l
             IN  SubSeq(err, open(i), close(i) - 1)

RECURSIVE RunOf(_, _)
\* the length of the run of character c that s begins with
RunOf(s, c) == IF s # <<>> /\ Head(s) = c THEN 1 + RunOf(Tail(s), c) ELSE 0

\* re.search of  Unknown option (--\\S+)  in a raw string: after "--" the
\* pattern asks for a backslash and then one or more letters S
search_unknown(err) ==
    LET pre == UNKNOWN \o <<"-", "-", "\\", "S">>
        at  == {i \in 1..Len(err) : StartsWith(SubSeq(err, i, Len(err)), pre)}
    IN  IF at = {} THEN NONE
        ELSE LET i == CHOOSE k \in at : \A l \in at : k <= l
                 g == i + Len(UNKNOWN)
             IN  SubSeq(err, g, g + 2 + RunOf(SubSeq(err, g + 3, Len(err)), "S"))

\* what handle_pandoc_error(e, cmd) prints before sys.exit(1)
handle_pandoc_error(err) ==
    LET m == IF search_unrecognized(err) # NONE THEN search_unrecognized(err)
             ELSE search_unknown(err)
    IN  IF m # NONE
        THEN Msg("Error: argument '{}' not recognized.\n Try: pandoc --help", <<m>>)
        ELSE Msg("{}", <<strip(err)>>)

(***************************************************************************)
(* main(): command line and configuration file                             *)
(***************************************************************************)
BoolFields == {"no_toc", "title_page"}
StrFields == {"root_dir", "output", "title", "author"}
ListFields == {"pandoc_args"}

\* the fields of RunParams that main() is given here
Fields == BoolFields \cup StrFields \cup ListFields

\* the keys of the [mdfusion] table: those fields, and merged_md
ConfigKeys == Fields \cup {"merged_md"}

\* the default of a field of RunParams
Default(k) == IF k \in BoolFields THEN FALSE ELSE IF k \in ListFields THEN <<>> ELSE NONE

Unset(k) == [set |-> FALSE, val |-> Default(k)]

NoCli == [k \in Fields |-> Unset(k)]
NoConfig == [k \in ConfigKeys |-> Unset(k)]

\* the state of a main() that has not been entered
MainIdle ==
    /\ cli = NoCli
    /\ extra = <<>>
    /\ config = NoConfig

\* load_config_defaults: the keys of the table that are fields of RunParams
load_config_defaults(conf) == [k \in Fields |-> conf[k]]

\* args.params: what the parser makes of the command line
parse_known_args(c) == [k \in Fields |-> IF c[k].set THEN c[k].val ELSE Default(k)]

\* getattr(params, k, None) in (None, False, [], ""); a Path is equal to none
\* of the four
InFalsy(k, v) ==
    IF k \in BoolFields THEN v = FALSE
    ELSE IF k = "root_dir" THEN v = NONE
    ELSE v = NONE \/ v = <<>>

\* the loop that merges the config defaults into the parsed params
merge_defaults(parsed, defaults) ==
    [k \in Fields |->
        IF defaults[k].set /\ InFalsy(k, parsed[k]) THEN defaults[k].val ELSE parsed[k]]

\* params.pandoc_args after "Handle extra pandoc args"
extend_extra(args, ex) == IF ex # <<>> THEN args \o ex ELSE args

(***************************************************************************)
(* Discovery: the inputs                                                   *)
(***************************************************************************)
MaxStem == 2
MaxFiles == 2

StemChars == {"a", "1", "2"}

Stems == UNION {[1..n -> StemChars] : n \in 1..MaxStem}

\* further entries: upper case, a leading zero, nested, or not matching *.md
OtherNames == { <<"A", ".", "m", "d">>,
                <<"0", "1", ".", "m", "d">>,
                <<"a", "/", "1", ".", "m", "d">>,
                <<"a", "/", "a", ".", "t", "x", "t">>,
                <<"a", ".", "t", "x", "t">>,
                <<"a", "m", "d">> }

RelNames == {s \o MD_SUFFIX : s \in Stems} \cup OtherNames

ROOT == <<"/", "r">>

EmptyFile == [text |-> <<>>, mode |-> "ok"]

InitFind ==
    /\ pc = "find"
    /\ root_dir = ROOT
    /\ \E S \in SubsetsUpTo(RelNames, MaxFiles) :
          files = [p \in {JoinRoot(ROOT, r) : r \in S} |-> EmptyFile]
    /\ md_files = <<>>
    /\ metadata = <<>>
    /\ merged = NoFile
    /\ reads = <<>>
    /\ exc = NoExc
    /\ RunIdle
    /\ MainIdle

Find ==
    /\ pc = "find"
    /\ \E enum \in Perms(DOMAIN files) :
          md_files' = find_markdown_files(root_dir, enum)
    /\ pc' = "found"
    /\ UNCHANGED <<mainvars, root_dir, files, metadata, merged, reads, exc, runvars>>

NextFind == Find

SpecFind == InitFind /\ [][NextFind]_vars

(***************************************************************************)
(* Discovery: properties                                                   *)
(***************************************************************************)
RECURSIVE NaturalCmp(_, _)
\* The natural order of two relative paths, stated on the paths themselves:
\* -1, 0 or 1.  The leading non-digit runs compare case-insensitively as
\* text; when they agree, a path that ends there comes first; otherwise the
\* digit runs that follow compare as integers, and then the rest decides.
NaturalCmp(s, t) ==
    LET ns == NonDigitRun(s)
        nt == NonDigitRun(t)
        a  == lower(SubSeq(s, 1, ns))
        b  == lower(SubSeq(t, 1, nt))
        rs == SubSeq(s, ns + 1, Len(s))
        rt == SubSeq(t, nt + 1, Len(t))
        x  == int(SubSeq(rs, 1, DigitRun(rs)))
        y  == int(SubSeq(rt, 1, DigitRun(rt)))
    IN  IF a # b THEN (IF StrLess(a, b) THEN -1 ELSE 1)
        ELSE IF rs = <<>> /\ rt = <<>> THEN 0
        ELSE IF rs = <<>> THEN -1
        ELSE IF rt = <<>> THEN 1
        ELSE IF x # y THEN (IF x < y THEN -1 ELSE 1)
        ELSE NaturalCmp(SubSeq(rs, DigitRun(rs) + 1, Len(rs)),
                        SubSeq(rt, DigitRun(rt) + 1, Len(rt)))

\* C1: find_markdown_files returns exactly the entries under the root that
\* end in .md, each once, in ascending natural order of their root-relative
\* paths (digit runs as integers, other runs case-insensitively as text).
C1_NaturalOrder ==
    pc = "found" =>
        /\ Range(md_files) = {p \in DOMAIN files : EndsWith(p, MD_SUFFIX)}
        /\ Len(md_files) = Cardinality(Range(md_files))
        /\ \A i, j \in 1..Len(md_files) :
              i < j => NaturalCmp(relative_to(md_files[i], root_dir),
                                  relative_to(md_files[j], root_dir)) <= 0

\* 2.md and 11.md were found: the shorter digit run, lexically the larger,
\* comes first
C1_Witness ==
    /\ pc = "found"
    /\ md_files = << JoinRoot(ROOT, <<"2", ".", "m", "d">>),
                     JoinRoot(ROOT, <<"1", "1", ".", "m", "d">>) >>

\* C2: the sequence returned does not depend on the order in which the file
\* system yields the entries: no two distinct discovered paths have the same
\* sort key, so every enumeration order sorts to the same sequence.
C2_OrderIndependent ==
    pc = "found" =>
        /\ \A p, q \in Range(md_files) :
              p # q => SortKey(p, root_dir) # SortKey(q, root_dir)
        /\ \A enum \in Perms(DOMAIN files) :
              find_markdown_files(root_dir, enum) = md_files

(***************************************************************************)
(* Merge: the inputs                                                       *)
(***************************************************************************)
MaxDocs == 2
MaxSegs == 2

DocPaths == { <<"/", "r", "/", "a", "/", "d", ".", "m", "d">>,
              <<"/", "r", "/", "b", "/", "d", ".", "m", "d">>,
              <<"r", "/", "d", ".", "m", "d">> }

\* pieces of Markdown a document is made of
Segments == { <<"x">>,
              <<"\r", "\n">>,
              <<"[", "a", "]", "(", "i", ")">>,
              <<"!", "[", "a", "]", "(", "i", ")">>,
              <<"!", "[", "a", "]", "(", ".", ".", "/", "i", ")">>,
              <<"!", "[", "a", "]", "(", "h", "t", "t", "p", ":", "/", "/", "h", ")">>,
              <<"!", "[", "a", "]", "(", "h", "t", "t", "p", "s", ":", "/", "/", "h", ")">>,
              <<"!", "[", "a", "]", "(", "f", "t", "p", ":", "/", "/", "h", ")">> }

RECURSIVE TextsOf(_)
\* the texts made of exactly n segments
TextsOf(n) ==
    IF n = 0 THEN {<<>>} ELSE {t \o g : t \in TextsOf(n - 1), g \in Segments}

RECURSIVE DocSeqs(_, _, _)
\* lists of at most k documents at distinct paths among P, with at most
\* b segments of text between them
DocSeqs(P, b, k) ==
    {<<>>} \cup
    (IF k = 0 THEN {}
     ELSE UNION { { <<[path |-> p, text |-> t]>> \o rest :
                        rest \in DocSeqs(P \ {p}, b - n, k - 1), t \in TextsOf(n) }
                  : p \in P, n \in 0..b })

InitMerge ==
    /\ pc = "merge"
    /\ root_dir = ROOT
    /\ \E ds \in DocSeqs(DocPaths, MaxSegs, MaxDocs) :
          /\ md_files = [i \in 1..Len(ds) |-> ds[i].path]
          /\ files = [p \in {ds[i].path : i \in 1..Len(ds)} |->
                        [text |-> (CHOOSE d \in Range(ds) : d.path = p).text,
                         mode |-> "ok"]]
    /\ metadata \in {<<>>, create_metadata(<<"T">>, <<"A">>)}
    /\ merged = NoFile
    /\ reads = <<>>
    /\ exc = NoExc
    /\ RunIdle
    /\ MainIdle

\* merge_markdown(md_files, merged_md, metadata)
Merge ==
    /\ pc = "merge"
    /\ LET r == merge_markdown(md_files, metadata, files)
       IN  /\ merged' = [exists |-> TRUE, writes |-> r.writes]
           /\ reads' = r.reads
           /\ exc' = r.exc
           /\ pc' = IF r.exc = NoExc THEN "merged" ELSE "raised"
    /\ UNCHANGED <<mainvars, root_dir, files, md_files, metadata, runvars>>

NextMerge == Merge

SpecMerge == InitMerge /\ [][NextMerge]_vars

\* the image reference ![alt](target)
Ref(alt, target) == <<"!", "[">> \o alt \o <<"]", "(">> \o target \o <<")">>

(***************************************************************************)
(* run(): the inputs                                                       *)
(***************************************************************************)
REVEAL_ARGS == << "-t", "revealjs", "-V",
                  "revealjs-url=https://cdn.jsdelivr.net/npm/reveal.js@4",
                  "-H", "reveal/header.html", "-A", "reveal/footer.html" >>

\* RunParams.__post_init__ raises ValueError for these
post_init_raises(p) ==
    p.presentation /\ Truthy(p.output) /\ ~EndsWith(lower(p.output), HTML)

\* RunParams.__post_init__
post_init(p) ==
    IF p.presentation THEN [p EXCEPT !.pandoc_args = @ \o REVEAL_ARGS] ELSE p

Outputs == {NONE, <<"o", ".", "p", "d", "f">>, <<"o", ".", "h", "t", "m", "l">>}

RunParamsSet ==
    { post_init(p) :
        p \in { q \in [output : Outputs, no_toc : BOOLEAN, title_page : BOOLEAN,
                       title : {NONE, <<"T">>}, author : {NONE, <<"A">>},
                       pandoc_args : {<<>>}, config_path : {NONE},
                       presentation : BOOLEAN,
                       debug : BOOLEAN] : ~post_init_raises(q) } }

Modes == {"ok", "perm", "enc"}

DOC_2 == JoinRoot(ROOT, <<"2", ".", "m", "d">>)
DOC_11 == JoinRoot(ROOT, <<"a", "/", "1", "1", ".", "m", "d">>)
NOTES == JoinRoot(ROOT, <<"n", ".", "t", "x", "t">>)

\* trees under the root: n.txt, and any of 2.md and a/11.md, readable or not
RunTrees ==
    { [p \in D \cup {NOTES} |->
          IF p = NOTES THEN [text |-> <<"x">>, mode |-> "ok"]
          ELSE [text |-> IF p = DOC_2 THEN <<"x">> ELSE Ref(<<"a">>, <<"i">>),
                mode |-> m[p]]] :
        D \in SUBSET {DOC_2, DOC_11}, m \in [{DOC_2, DOC_11} -> Modes] }

\* what the renderer writes to stderr when it exits non-zero
PandocErrors ==
    { UNRECOGNIZED \o <<"-", "-", "x", "'", "\n">>,
      UNKNOWN \o <<"-", "-", "x", ".", "\n">>,
      UNKNOWN \o <<"-", "-", "\\", "S", "S", "\n">>,
      <<"b", "o", "o", "m", "\n">> }

\* the TOML file params.config_path names, and the directory its merged_md
\* key names
CONFIG_PATH == <<"/", "w", "/", "m", ".", "t", "o", "m", "l">>
KEEP_DIR == <<"/", "k">>

\* run() is given no config_path, or that of a file that sets merged_md
RunConfigs ==
    { NoConfig, [NoConfig EXCEPT !["merged_md"] = [set |-> TRUE, val |-> KEEP_DIR]] }

InitRun ==
    /\ pc = "run"
    /\ root_dir \in {NONE, ROOT}
    /\ files \in RunTrees
    /\ md_files = <<>>
    /\ metadata = <<>>
    /\ merged = NoFile
    /\ reads = <<>>
    /\ exc = NoExc
    /\ config \in RunConfigs
    /\ \E p \in RunParamsSet :
          params = [p EXCEPT !.config_path =
                        IF config = NoConfig THEN NONE ELSE CONFIG_PATH]
    /\ tools \in SUBSET REQUIRED
    /\ temp_dir = "absent"
    /\ calls = <<>>
    /\ proc = NoProc
    /\ outputs = {}
    /\ stdout = <<>>
    /\ stderr = <<>>
    /\ outcome = "running"
    /\ cli = NoCli
    /\ extra = <<>>

(***************************************************************************)
(* run(): the steps                                                        *)
(***************************************************************************)
TEMP_MERGED == <<"/", "t", "/", "m", "e", "r", "g", "e", "d", ".", "m", "d">>

\* run(), to the check of root_dir: a missing requirement, or no root_dir,
\* prints and returns
RunStart ==
    /\ pc = "run"
    /\ IF ~requirements_met(tools)
       THEN /\ stderr' = stderr \o requirements_errors(tools)
            /\ outcome' = "returned"
            /\ pc' = "done"
       ELSE IF root_dir = NONE
       THEN /\ stderr' = Append(stderr, Msg("Error: root_dir must be specified", <<>>))
            /\ outcome' = "returned"
            /\ pc' = "done"
       ELSE /\ pc' = "discover"
            /\ UNCHANGED <<stderr, outcome>>
    /\ UNCHANGED <<mainvars, root_dir, files, md_files, metadata, merged, reads, exc,
                   params, tools, temp_dir, calls, proc, outputs, stdout>>

\* a discovery that goes on with no documents
RunDiscoverUnchecked ==
    /\ pc = "discover"
    /\ \E enum \in Perms(DOMAIN files) :
          md_files' = find_markdown_files(root_dir, enum)
    /\ calls' = Append(calls, "find")
    /\ pc' = "setup"
    /\ UNCHANGED <<stderr, exc, outcome>>
    /\ UNCHANGED <<mainvars, root_dir, files, metadata, merged, reads,
                   params, tools, temp_dir, proc, outputs, stdout>>

\* md_files = find_markdown_files(root_dir); none found: print, sys.exit(1)
RunDiscover ==
    /\ pc = "discover"
    /\ \E enum \in Perms(DOMAIN files) :
          md_files' = find_markdown_files(root_dir, enum)
    /\ calls' = Append(calls, "find")
    /\ IF md_files' = <<>>
       THEN /\ stderr' = Append(stderr, Msg("No Markdown files found in {}", <<root_dir>>))
            /\ exc' = SystemExit
            /\ outcome' = "exit1"
            /\ pc' = "done"
       ELSE /\ pc' = "setup"
            /\ UNCHANGED <<stderr, exc, outcome>>
    /\ UNCHANGED <<mainvars, root_dir, files, metadata, merged, reads,
                   params, tools, temp_dir, proc, outputs, stdout>>

\* title, author, metadata; temp_dir = mkdtemp()
RunSetup ==
    /\ pc = "setup"
    /\ metadata' = run_metadata(params, root_dir)
    /\ temp_dir' = "present"
    /\ calls' = Append(calls, "mkdtemp")
    /\ pc' = "merge"
    /\ UNCHANGED <<mainvars, root_dir, files, md_files, merged, reads, exc,
                   params, tools, proc, outputs, stdout, stderr, outcome>>

\* the renderer is run (in any of the three ways: debug, no terminal, with
\* the spinner, whose frames are not recorded); it exits with 0, or with a
\* non-zero status and a diagnostic
RunPandoc ==
    /\ pc = "merged"
    /\ LET cmd == pandoc_cmd(params, root_dir, TEMP_MERGED)
           dbg == IF params.debug THEN <<Msg("[DEBUG] Running: {}", <<cmd>>)>> ELSE <<>>
       IN  /\ calls' = calls \o (IF cmd.header THEN <<"build_header">> ELSE <<>>)
                             \o <<"pandoc">>
           /\ \/ /\ proc' = [ran |-> TRUE, cmd |-> cmd, rc |-> 0, err |-> <<>>]
                 /\ outputs' = outputs \cup {cmd.out}
                 /\ stdout' = stdout \o dbg
                        \o (IF params.debug THEN <<Msg("{pandoc stdout}", <<>>)>> ELSE <<>>)
                        \o <<Msg("Merged PDF written to {}", <<cmd.out>>)>>
                 /\ stderr' = stderr
                        \o (IF params.debug THEN <<Msg("{pandoc stderr}", <<>>)>> ELSE <<>>)
                 /\ pc' = "rendered"
                 /\ UNCHANGED exc
              \/ \E err \in PandocErrors :
                 /\ proc' = [ran |-> TRUE, cmd |-> cmd, rc |-> 1, err |-> err]
                 /\ stdout' = stdout \o dbg
                        \o (IF params.debug THEN <<Msg("{pandoc stdout}", <<>>)>> ELSE <<>>)
                 /\ stderr' = stderr
                        \o (IF params.debug THEN <<Msg("{}", <<err>>)>> ELSE <<>>)
                        \o <<handle_pandoc_error(err)>>
                 /\ exc' = SystemExit
                 /\ pc' = "finally"
                 /\ UNCHANGED outputs
    /\ UNCHANGED <<mainvars, root_dir, files, md_files, metadata, merged, reads,
                   params, tools, temp_dir, outcome>>

IsHtml == EndsWith(out_pdf(params, root_dir), HTML)

\* output is HTML: copy it into temp_dir and bundle_html(); htmlark may be
\* missing (print, sys.exit(1)) and the copy or the conversion may raise
RunBundle ==
    /\ pc = "rendered"
    /\ IsHtml
    /\ calls' = Append(calls, "bundle")
    /\ \/ /\ stdout' = Append(stdout, Msg("Bundled HTML written to {}",
                                          <<out_pdf(params, root_dir)>>))
          /\ pc' = "bundled"
          /\ UNCHANGED <<stderr, exc>>
       \/ /\ stderr' = Append(stderr,
                 Msg("Error: htmlark is required to bundle HTML output.", <<>>))
          /\ exc' = SystemExit
          /\ pc' = "finally"
          /\ UNCHANGED stdout
       \/ /\ exc' = [type |-> "Exception", path |-> <<>>]
          /\ pc' = "except"
          /\ UNCHANGED <<stdout, stderr>>
    /\ UNCHANGED <<mainvars, root_dir, files, md_files, metadata, merged, reads,
                   params, tools, temp_dir, proc, outputs, outcome>>

RECURSIVE LastDot(_)
\* the index of the last "." of a file name, 0 without one
LastDot(s) ==
    IF s = <<>> THEN 0 ELSE IF s[Len(s)] = "." THEN Len(s)
    ELSE LastDot(SubSeq(s, 1, Len(s) - 1))

\* Path(p).with_suffix(suffix), for a file name
with_suffix(p, suffix) ==
    (IF LastDot(p) > 1 THEN SubSeq(p, 1, LastDot(p) - 1) ELSE p) \o suffix

AfterBundle == pc = "bundled" \/ (pc = "rendered" /\ ~IsHtml)

\* presentation: html_to_pdf(); Playwright may be missing (print,
\* sys.exit(1)) and the conversion may raise
RunPdf ==
    /\ AfterBundle
    /\ params.presentation
    /\ calls' = Append(calls, "html_to_pdf")
    /\ LET pdf == with_suffix(out_pdf(params, root_dir), PDF)
       IN  \/ /\ outputs' = outputs \cup {pdf}
              /\ stdout' = Append(stdout,
                     Msg("Converted HTML presentation to PDF: {}", <<pdf>>))
              /\ pc' = "finally"
              /\ UNCHANGED <<stderr, exc>>
           \/ /\ stderr' = Append(stderr,
                     Msg("Error: Playwright is required for PDF conversion.", <<>>))
              /\ exc' = SystemExit
              /\ pc' = "finally"
              /\ UNCHANGED <<stdout, outputs>>
           \/ /\ exc' = [type |-> "Exception", path |-> <<>>]
              /\ pc' = "except"
              /\ UNCHANGED <<stdout, stderr, outputs>>
    /\ UNCHANGED <<mainvars, root_dir, files, md_files, metadata, merged, reads,
                   params, tools, temp_dir, proc, outcome>>

\* the end of the try block is reached
RunEnd ==
    /\ AfterBundle
    /\ ~params.presentation
    /\ pc' = "finally"
    /\ UNCHANGED <<mainvars, root_dir, files, md_files, metadata, merged, reads, exc, runvars>>

\* except Exception as e: print, sys.exit(1)
RunExcept ==
    /\ pc \in {"raised", "except"}
    /\ stderr' = Append(stderr, exc_message(exc))
    /\ exc' = SystemExit
    /\ pc' = "finally"
    /\ UNCHANGED <<mainvars, root_dir, files, md_files, metadata, merged, reads,
                   params, tools, temp_dir, calls, proc, outputs, stdout, outcome>>

\* a run() that removes temp_dir at the end of the try block only
RunCleanupOnSuccess ==
    /\ pc = "finally"
    /\ temp_dir' = IF exc = NoExc THEN "removed" ELSE temp_dir
    /\ merged' = IF exc = NoExc THEN NoFile ELSE merged
    /\ calls' = IF exc = NoExc THEN Append(calls, "rmtree") ELSE calls
    /\ outcome' = IF exc = SystemExit THEN "exit1" ELSE "returned"
    /\ pc' = "done"
    /\ UNCHANGED <<mainvars, root_dir, files, md_files, metadata, reads, exc,
                   params, tools, proc, outputs, stdout, stderr>>

\* finally: shutil.rmtree(temp_dir); then run() returns or the exit goes on
RunFinally ==
    /\ pc = "finally"
    /\ temp_dir' = "removed"
    /\ merged' = NoFile
    /\ calls' = Append(calls, "rmtree")
    /\ outcome' = IF exc = SystemExit THEN "exit1" ELSE "returned"
    /\ pc' = "done"
    /\ UNCHANGED <<mainvars, root_dir, files, md_files, metadata, reads, exc,
                   params, tools, proc, outputs, stdout, stderr>>

NextRun ==
    \/ RunStart
    \/ RunDiscover
    \/ RunSetup
    \/ Merge
    \/ RunPandoc
    \/ RunBundle
    \/ RunPdf
    \/ RunEnd
    \/ RunExcept
    \/ RunFinally

SpecRun == InitRun /\ [][NextRun]_vars

(***************************************************************************)
(* main(): the inputs and the step                                         *)
(***************************************************************************)
MaxCli == 2
MaxCfg == 2

CONFIG_ROOT == <<"/", "g">>

\* the values an option is given on the command line: both booleans, the
\* empty and a non-empty string, the empty and a non-empty list
CliValue(k, i) ==
    IF k \in BoolFields THEN (i = 2)
    ELSE IF k = "root_dir" THEN ROOT
    ELSE IF k \in ListFields THEN (IF i = 2 THEN <<"-c">> ELSE <<>>)
    ELSE (IF i = 2 THEN <<"c">> ELSE <<>>)

\* the values a key is given in the configuration file
ConfigValue(k, i) ==
    IF k \in BoolFields THEN (i = 2)
    ELSE IF k = "root_dir" THEN CONFIG_ROOT
    ELSE IF k \in ListFields THEN <<"-g">>
    ELSE <<"g">>

CliSet ==
    { [k \in Fields |-> IF k \in S THEN [set |-> TRUE, val |-> CliValue(k, f[k])]
                        ELSE Unset(k)] :
        S \in SubsetsUpTo(Fields, MaxCli), f \in [Fields -> {1, 2}] }

ConfigSet ==
    { [k \in ConfigKeys |-> IF k \in S THEN [set |-> TRUE, val |-> ConfigValue(k, f[k])]
                            ELSE Unset(k)] :
        S \in SubsetsUpTo(Fields, MaxCfg), f \in [Fields -> {1, 2}] }

InitMain ==
    /\ pc = "main"
    /\ cli \in CliSet
    /\ extra \in {<<>>, <<"-e">>}
    /\ config \in ConfigSet
    /\ root_dir = NONE
    /\ files = EmptyFile
    /\ md_files = <<>>
    /\ metadata = <<>>
    /\ merged = NoFile
    /\ reads = <<>>
    /\ exc = NoExc
    /\ RunIdle

\* main(): load the config defaults, parse the command line, merge the
\* two, add the extra arguments, require root_dir, call run(params)
Main ==
    /\ pc = "main"
    /\ LET parsed == parse_known_args(cli)
           m      == merge_defaults(parsed, load_config_defaults(config))
       IN  /\ params' = post_init(
                  [output |-> m.output, no_toc |-> m.no_toc,
                   title_page |-> m.title_page, title |-> m.title,
                   author |-> m.author,
                   pandoc_args |-> extend_extra(m.pandoc_args, extra),
                   config_path |-> NONE, presentation |-> FALSE, debug |-> FALSE])
           /\ root_dir' = m.root_dir
           /\ IF m.root_dir = NONE
              THEN /\ stderr' = Append(stderr,
                          Msg("you must specify root_dir (or provide it in the config file)", <<>>))
                   /\ outcome' = "exit2"
                   /\ pc' = "done"
              ELSE /\ pc' = "run"
                   /\ UNCHANGED <<stderr, outcome>>
    /\ UNCHANGED <<mainvars, files, md_files, metadata, merged, reads, exc,
                   tools, temp_dir, calls, proc, outputs, stdout>>

NextMain == Main

SpecMain == InitMain /\ [][NextMain]_vars

(***************************************************************************)
(* Merge: properties                                                       *)
(***************************************************************************)
IsSubstring(a, b) ==
    \E i \in 0..(Len(b) - Len(a)) : SubSeq(b, i + 1, i + Len(a)) = a

\* the content of the merged artifact
Artifact == Concat(merged.writes)

Docs == 1..Len(md_files)

PAGE_BREAK == <<"\\", "n", "e", "w", "p", "a", "g", "e", "\n">>

RECURSIVE Triples(_)
\* per document: page break, text with its references rewritten, blank line
Triples(docs) ==
    IF docs = <<>> THEN <<>>
    ELSE PAGE_BREAK \o IMAGE_RE_sub(read_text(files[Head(docs)]), 1, Head(docs))
             \o NEWLINES \o Triples(Tail(docs))

\* C3: after the optional metadata block the artifact is, document by
\* document in the order given, a page-break marker, the document's text
\* with its local image references rewritten, and a blank-line separator,
\* and nothing else.
C3_PageBreakTriples ==
    pc = "merged" => Artifact = metadata \o Triples(md_files)

\* the directory part of a path string
DirName(p) ==
    LET slashes == {i \in 1..Len(p) : p[i] = "/"}
    IN  SubSeq(p, 1, (CHOOSE i \in slashes : \A j \in slashes : j <= i) - 1)

\* the absolute directory that holds document d
AbsDirOf(d) == IF d[1] = "/" THEN DirName(d) ELSE CWD \o SEP \o DirName(d)

AltTexts == {<<"a">>}
PARENT == <<".", ".", "/">>
LocalLinks == {<<"i">>, PARENT \o <<"i">>}
BareNames == {<<"i">>}

\* the absolute, normalized form of d's directory joined with link L, for
\* a link that is a file name, or a file name one directory up
Target(d, L) ==
    IF StartsWith(L, PARENT)
    THEN DirName(AbsDirOf(d)) \o SEP \o SubSeq(L, Len(PARENT) + 1, Len(L))
    ELSE AbsDirOf(d) \o SEP \o L

\* C4: a local image reference ![alt](L) in document D is in the artifact
\* as ![alt](P), P the absolute normalized path of D's own directory joined
\* with L, and no longer as written; two documents in different directories
\* that reference the same file name get two distinct paths, each inside
\* its own directory.
C4_LocalRefsResolved ==
    pc = "merged" =>
        /\ \A k \in Docs, alt \in AltTexts, L \in LocalLinks :
              IsSubstring(Ref(alt, L), files[md_files[k]].text) =>
                  /\ IsSubstring(Ref(alt, Target(md_files[k], L)), Artifact)
                  /\ ~IsSubstring(Ref(alt, L), Artifact)
        /\ \A k1, k2 \in Docs, alt \in AltTexts, L \in BareNames :
              /\ AbsDirOf(md_files[k1]) # AbsDirOf(md_files[k2])
              /\ IsSubstring(Ref(alt, L), files[md_files[k1]].text)
              /\ IsSubstring(Ref(alt, L), files[md_files[k2]].text)
              => /\ Target(md_files[k1], L) # Target(md_files[k2], L)
                 /\ IsSubstring(Ref(alt, AbsDirOf(md_files[k1]) \o SEP \o L), Artifact)
                 /\ IsSubstring(Ref(alt, AbsDirOf(md_files[k2]) \o SEP \o L), Artifact)

\* /r/a/d.md and /r/b/d.md both reference i; the artifact holds /r/a/i, /r/b/i
C4_Witness ==
    /\ pc = "merged"
    /\ Len(md_files) = 2
    /\ \A k \in Docs : files[md_files[k]].text = Ref(<<"a">>, <<"i">>)
    /\ IsSubstring(Ref(<<"a">>, <<"/", "r", "/", "a", "/", "i">>), Artifact)
    /\ IsSubstring(Ref(<<"a">>, <<"/", "r", "/", "b", "/", "i">>), Artifact)

\* link targets that begin with a URL scheme
ExternalLinks == { HTTP \o <<"h">>, HTTPS \o <<"h">>,
                   <<"f", "t", "p", ":", "/", "/", "h">> }

\* C5: an image reference whose target begins with a URL scheme, whatever
\* the scheme and its spelling, is in the artifact exactly as in the document.
C5_ExternalUnchanged ==
    pc = "merged" =>
        \A k \in Docs, alt \in AltTexts, U \in ExternalLinks :
            IsSubstring(Ref(alt, U), files[md_files[k]].text) =>
                IsSubstring(Ref(alt, U), Artifact)

\* an image reference at index i, whatever its target
RefAt(text, i) ==
    LET j == FirstIndex(text, i + 2, "]")
        k == IF j = 0 THEN 0 ELSE FirstIndex(text, j + 2, ")")
    IN  [ok  |-> /\ i + 1 <= Len(text)
                 /\ text[i] = "!"
                 /\ text[i + 1] = "["
                 /\ j # 0
                 /\ j + 1 <= Len(text)
                 /\ text[j + 1] = "("
                 /\ k > j + 2,
         alt |-> IF j = 0 THEN <<>> ELSE SubSeq(text, i + 2, j - 1),
         end |-> k]

RECURSIVE Skeleton(_, _)
\* the text from index i on with the target of every image reference blanked:
\* what a rewrite of image targets must leave as it is
Skeleton(text, i) ==
    IF i > Len(text) THEN <<>>
    ELSE LET m == RefAt(text, i)
         IN  IF m.ok THEN Ref(m.alt, <<>>) \o Skeleton(text, m.end + 1)
             ELSE <<text[i]>> \o Skeleton(text, i + 1)

\* C6: apart from the targets of image references, each document's text is
\* written to the artifact character for character (text around references,
\* plain links and alt texts included).
C6_TextUnaltered ==
    pc = "merged" =>
        \A k \in Docs :
            \E w \in Range(merged.writes) :
                Skeleton(w, 1) = Skeleton(files[md_files[k]].text, 1)

(***************************************************************************)
(* run(): properties                                                       *)
(***************************************************************************)
\* title-page information was asked of run()
Requested == params.title_page \/ params.title # NONE \/ params.author # NONE

HEADER_OPEN == <<"-", "-", "-", "\n">>

\* the header block for the title and author asked for, the directory name
\* and the OS user standing in for what is not given
ExpectedHeader ==
    create_metadata(IF params.title # NONE THEN params.title ELSE name(root_dir),
                    IF params.author # NONE THEN params.author ELSE USER)

\* the first document's text as the merge writes it
FirstContent == IMAGE_RE_sub(read_text(files[md_files[1]]), 1, md_files[1])

\* C7: the merged artifact holds a metadata header block only when
\* title-page information was requested; when it was, the artifact begins
\* with exactly one header block (title, author, date) and the first
\* document's content follows it immediately.
C7_MetadataHeader ==
    pc = "merged" =>
        /\ Requested =>
              /\ StartsWith(Artifact, ExpectedHeader \o FirstContent)
              /\ ~IsSubstring(HEADER_OPEN,
                     SubSeq(Artifact, Len(ExpectedHeader) + 1, Len(Artifact)))
        /\ ~Requested => ~IsSubstring(HEADER_OPEN, Artifact)

\* a merge for an author alone, without the title-page flag, whose first
\* document holds an image reference
C7_Witness ==
    /\ pc = "merged"
    /\ ~params.title_page
    /\ params.title = NONE
    /\ params.author = <<"A">>
    /\ md_files = <<DOC_11>>
    /\ StartsWith(Artifact, ExpectedHeader \o Ref(<<"a">>, <<"/", "r", "/", "a", "/", "i">>))

\* a message of the stream names the path
Names(stream, path) ==
    \E i \in DOMAIN stream : \E j \in DOMAIN stream[i].args : stream[i].args[j] = path

Discovered == "find" \in Range(calls)

\* C8: when discovery finds no document under the root, the invocation
\* fails with a message naming the root and a non-zero exit, and produces
\* nothing: no temporary directory, no merged file, no call of the renderer,
\* no output file.
C8_EmptyDiscoveryFails ==
    (Discovered /\ md_files = <<>>) =>
        /\ pc = "done"
        /\ outcome = "exit1"
        /\ Names(stderr, root_dir)
        /\ temp_dir = "absent"
        /\ "mkdtemp" \notin Range(calls)
        /\ merged = NoFile
        /\ ~proc.ran
        /\ outputs = {}
        /\ stdout = <<>>

\* a root that holds n.txt alone has been searched
C8_Witness ==
    /\ Discovered
    /\ DOMAIN files = {NOTES}
    /\ md_files = <<>>
    /\ outcome = "exit1"

\* the merge stopped at a document that cannot be read
ReadFailed == Len(reads) > 0 /\ files[reads[Len(reads)]].mode # "ok"

Offending == reads[Len(reads)]

\* C9: a document that cannot be read (permissions, encoding) aborts the
\* merge at that document: no later document is read, the failure is
\* reported with the path of the offending document, the renderer is not
\* called, and the partly written merged file is neither left behind nor
\* used as output.
C9_ReadFailureReported ==
    (pc = "done" /\ ReadFailed) =>
        /\ reads = SubSeq(md_files, 1, Len(reads))
        /\ \A i \in 1..(Len(reads) - 1) : files[reads[i]].mode = "ok"
        /\ Names(stderr, Offending)
        /\ ~proc.ran
        /\ merged = NoFile
        /\ temp_dir = "removed"
        /\ outputs = {}
        /\ outcome = "exit1"

\* the renderer could not be run, or ran and failed
RendererFailed == ~requirements_met(tools) \/ (proc.ran /\ proc.rc # 0)

Printed(stream, fmt) == \E i \in DOMAIN stream : stream[i].fmt = fmt

\* C10: every failure of the renderer (a non-zero exit, a rejected option,
\* a missing pandoc or xetex) is reported and ends the invocation: no
\* success message, no bundling, no PDF conversion, and no end that looks
\* like a success.
C10_RenderFailureTerminal ==
    (pc = "done" /\ RendererFailed) =>
        /\ stderr # <<>>
        /\ ~Printed(stdout, "Merged PDF written to {}")
        /\ "bundle" \notin Range(calls)
        /\ "html_to_pdf" \notin Range(calls)
        /\ outcome = "exit1"

(***************************************************************************)
(* main(): properties                                                      *)
(***************************************************************************)
\* the value of a parameter that run() is called with
Used(k) == IF k = "root_dir" THEN root_dir ELSE params[k]

\* the value the caller gave; the extra arguments are the caller's too
CallerValue(k) == IF k = "pandoc_args" THEN cli[k].val \o extra ELSE cli[k].val

\* C11: a parameter the caller supplied on the command line reaches run()
\* with the caller's value whatever the configuration file holds, for every
\* parameter and every explicit value, false, empty and empty list included;
\* a configuration value is used only where the caller supplied none.
C11_CallerWins ==
    pc = "run" => \A k \in Fields : cli[k].set => Used(k) = CallerValue(k)

\* run() was given a config_path and nothing else
OnlyConfigPath ==
    /\ params = [NoParams EXCEPT !.config_path = CONFIG_PATH]
    /\ root_dir = NONE

MERGED_NAME == <<"/", "m", "e", "r", "g", "e", "d", ".", "m", "d">>

\* C12: when run() is given only a config_path, of a TOML file whose
\* [mdfusion] table sets merged_md to a directory, and pandoc and xetex are
\* installed, a file merged.md exists in that directory after run() has
\* returned.
C12_MergedKept ==
    (pc = "done" /\ outcome = "returned" /\ requirements_met(tools)
        /\ OnlyConfigPath /\ config["merged_md"].set) =>
        (config["merged_md"].val \o MERGED_NAME) \in outputs

\* the renderer ran and exited with a non-zero status, and the invocation
\* has ended
RenderFailed == pc = "done" /\ proc.ran /\ proc.rc # 0

\* the diagnostic reports an option in one of the two forms
ReportsOption(err) ==
    IsSubstring(UNRECOGNIZED, err) \/ IsSubstring(UNKNOWN \o <<"-", "-">>, err)

\* the message names an option of the diagnostic, and is not the diagnostic
NamesOption(msg, err) ==
    /\ msg.fmt = "Error: argument '{}' not recognized.\n Try: pandoc --help"
    /\ Len(msg.args) = 1
    /\ StartsWith(msg.args[1], <<"-", "-">>)
    /\ IsSubstring(msg.args[1], err)

\* C13: when the renderer exits non-zero and its diagnostic reports an
\* unrecognized option in either form ("unrecognized option `X'" or
\* "Unknown option --X"), the error printed names that option; for any
\* other diagnostic the renderer's stderr is printed stripped and otherwise
\* as it is; in both cases the process exits with status 1.
C13_OptionNamed ==
    RenderFailed =>
        /\ outcome = "exit1"
        /\ IF ReportsOption(proc.err)
           THEN NamesOption(stderr[Len(stderr)], proc.err)
           ELSE stderr[Len(stderr)] = Msg("{}", <<strip(proc.err)>>)

\* the invocation has ended: run() has returned or the process is exiting
Ended == outcome # "running"

\* C14: on every exit path after the temporary directory was created
\* (render done, a document that cannot be read, a renderer failure, a
\* bundling or PDF-conversion failure) the directory and the merged.md in
\* it are gone when the invocation returns or the process exits.
C14_TempDirRemoved ==
    /\ Ended => temp_dir # "present"
    /\ (Ended /\ "mkdtemp" \in Range(calls)) =>
          /\ temp_dir = "removed"
          /\ ~merged.exists
          /\ calls[Len(calls)] = "rmtree"

\* an invocation whose bundling raised has exited with status 1, after the
\* renderer had written the HTML
C14_Witness ==
    /\ outcome = "exit1"
    /\ temp_dir = "removed"
    /\ proc.ran /\ proc.rc = 0
    /\ "bundle" \in Range(calls)
    /\ Printed(stderr, "Error during processing: {}")

====
